---- MODULE Spec2Model ----
(***************************************************************************)
(* Model of gcs-unzip (main.go, extractor.go): run() downloads an archive, *)
(* pre-scans its entries, then stages every entry under a weighted        *)
(* semaphore (diskSem) while an errgroup (uploadGroup, limit n+1) runs a   *)
(* dispatcher goroutine and one upload goroutine per staged job.          *)
(* golang.org/x/sync is pinned at v0.3.0 by go.mod; errgroup and          *)
(* semaphore are modelled as that version behaves.                        *)
(* Spec draws the archive, the flags and the source extension from small  *)
(* sets; SpecContended is the same program on one archive of three files  *)
(* that makes the producer wait in Acquire while two uploads run.         *)
(***************************************************************************)
EXTENDS Integers, Sequences, FiniteSets, TLC

\* ---------------------------------------------------------------- bounds
MaxFiles == 2
MaxSize == 2
MaxLimit == 2
MaxWorkers == 2
\* how many os.Remove calls of one run may fail
MaxRemoveFail == 1
\* width of the machine word the model uses for uint64/int64 (stands for 64)
Bits == 5

\* ------------------------------------------------------- pure functions
Pow2(k) == 2 ^ k

\* int64(x) of a uint64 x: two's complement reinterpretation
Int64(x) == IF x >= Pow2(Bits - 1) THEN x - Pow2(Bits) ELSE x

bytesUnits ==
  << [suffix |-> "g", value |-> 1073741824],
     [suffix |-> "m", value |-> 1048576],
     [suffix |-> "k", value |-> 1024],
     [suffix |-> "gb", value |-> 1073741824],
     [suffix |-> "mb", value |-> 1048576],
     [suffix |-> "kb", value |-> 1024],
     [suffix |-> "b", value |-> 1],
     [suffix |-> "", value |-> 1] >>

\* bytesValue.String: the first unit not larger than x, integer division
bytesString(x) ==
  LET hit == {k \in 1..Len(bytesUnits) : x >= bytesUnits[k].value}
  IN IF hit = {} THEN [num |-> 0, suffix |-> ""]
     ELSE LET k == CHOOSE m \in hit : \A o \in hit : m <= o
          IN [num |-> x \div bytesUnits[k].value, suffix |-> bytesUnits[k].suffix]

\* A path is the sequence of its components (the string split at the
\* separator); the empty string is <<"">>.
RECURSIVE isIgnoreMeta(_)
isIgnoreMeta(name) ==
  IF name = <<"">> THEN FALSE
  ELSE IF Len(name) = 1
       THEN name[1] \in {".DS_Store", "Thumbs.db", "__MACOSX"}
       ELSE IF name[1] = "__MACOSX" THEN TRUE
            ELSE isIgnoreMeta(Tail(name))

\* strings.ToLower on a string given as the sequence of its characters
Lower(c) ==
  CASE c = "Z" -> "z" [] c = "I" -> "i" [] c = "P" -> "p" [] c = "T" -> "t"
    [] c = "X" -> "x" [] OTHER -> c
ToLower(s) == [j \in 1..Len(s) |-> Lower(s[j])]

extZip == <<".", "z", "i", "p">>
ext7z == <<".", "7", "z">>

\* main.go:66-70: the switch on strings.ToLower(path.Ext(src.Path))
Supported(ext) == ToLower(ext) \in {ext7z, extZip}

\* extractor.go:30-45: the switch on filepath.Ext(f.Name()), which is the
\* extension of the source name as it was written
NewExtractor(ext) ==
  CASE ext = ext7z -> "7z"
    [] ext = extZip -> "zip"
    [] OTHER -> "panic"

\* path.Clean on a relative path given as its components: empty and "."
\* components are dropped, ".." takes back the component before it
RECURSIVE Clean(_)
Clean(p) ==
  IF p = <<>> THEN <<>>
  ELSE LET c == Clean(SubSeq(p, 1, Len(p) - 1))
           l == p[Len(p)]
       IN IF l \in {"", "."} THEN c
          ELSE IF l = ".." /\ c # <<>> /\ c[Len(c)] # ".."
               THEN SubSeq(c, 1, Len(c) - 1)
               ELSE Append(c, l)

\* path.Join and filepath.Join: the elements are joined and cleaned
Join(a, b) == Clean(a \o b)

\* -------------------------------------------------------------- inputs
\* entry k of an archive has the leaf LeafNames[k], so paths are unique
LeafNames == <<"a.txt", "b", "c.txt", "d", "e">>
Prefixes == {<<>>, <<"__MACOSX">>}
archiveName == "data"
\* dest.Path[1:], the prefix of the destination objects
destPrefix == <<"out">>
\* extensions of the source name: supported, supported but for the case of
\* its letters, unsupported (a ".7z" archive takes the steps of a ".zip"
\* one through the Extractor interface)
Exts == { extZip, <<".", "Z", "I", "P">>, <<".", "7", "Z">>, <<".", "t", "x", "t">> }

\* what entry k of an archive can be: a file of any size; or, each of the
\* largest size, a file under __MACOSX, a directory, a directory under
\* __MACOSX
Entries(k) ==
  { [name |-> <<LeafNames[k]>>, dir |-> FALSE, size |-> s] : s \in 1..MaxSize }
  \cup { [name |-> p \o <<LeafNames[k]>>, dir |-> d, size |-> MaxSize] :
            p \in Prefixes, d \in BOOLEAN }

Archives ==
  UNION { { f \in [1..len -> UNION {Entries(k) : k \in 1..len}] :
              \A k \in 1..len : f[k] \in Entries(k) } : len \in 0..MaxFiles }

VARIABLES
  files, diskLimit, n, withMeta,   \* archive and flags
  srcExt,                          \* extension of the source name
  workDirMade, removeAllCalls,     \* MkdirTemp has succeeded; calls of RemoveAll
  extractorOpened,                 \* NewExtractor has returned an extractor
  objects,                         \* by entry index: the object a writer was made for
  pc, i, result,                   \* run(): position, loop index, return value
  filesCount, largestFile, largestSize,
  zipPath,                         \* download has returned the archive's path
  workDir, tmpFiles, dirs,         \* staging directory, files and directories in it
  semSize, semCur, semWaiter,      \* diskSem
  cancelled, gerr,                 \* errgroup context and first error
  uploadJobCh, chClosed,           \* job channel
  dpc, djob,                       \* dispatcher goroutine
  wpc, wret,                       \* upload goroutines, by entry index
  hist                             \* per entry: how often each event happened

vars == << files, diskLimit, n, withMeta, srcExt,
           workDirMade, removeAllCalls, extractorOpened, objects, pc, i, result,
           filesCount, largestFile, largestSize,
           zipPath, workDir, tmpFiles, dirs,
           semSize, semCur, semWaiter, cancelled, gerr,
           uploadJobCh, chClosed, dpc, djob, wpc, wret, hist >>

Idx == 1..Len(files)
NoErr == [op |-> "nil", entry |-> 0]
Err(op, k) == [op |-> op, entry |-> k]
NoJob == [name |-> <<>>, size |-> 0, entry |-> 0]

Events == {"acq", "rel", "cre", "emi", "con", "sta", "fin", "rem", "skp", "abt", "mkd", "rmf"}
Bump(k, ev) == [hist EXCEPT ![k] = [@ EXCEPT ![ev] = @ + 1]]

\* a name without the archive's name in front
JobNameBare(k) == Clean(files[k].name)

\* the name the producer gives entry k (main.go:309)
JobName(k) == Join(<<archiveName>>, files[k].name)

\* upload (main.go:142): path.Join(dest.Path[1:], filepath.ToSlash(f))
ObjectName(f) == Join(destPrefix, f)

\* a filter that lets every entry through
ExcludedNever(k) == FALSE

\* entries the filter of the pre-scan and of the producer loop lets through
Excluded(k) == ~withMeta /\ isIgnoreMeta(files[k].name)

\* Extractor.IsDir (extractor.go:69-71, 93-95)
IsDirNever(k) == FALSE
IsDir(k) == files[k].dir

\* ------------------------------------------------------------ pre-scan
\* a pre-scan that forgets to skip directory entries
RECURSIVE PreScanDirs(_)
PreScanDirs(k) ==
  IF k = 0 THEN [filesCount |-> 0, largestFile |-> 0, largestSize |-> 0]
  ELSE LET p == PreScanDirs(k - 1)
       IN IF Excluded(k) THEN p
          ELSE [filesCount |-> p.filesCount + 1,
                largestFile |-> IF p.largestSize < files[k].size THEN k ELSE p.largestFile,
                largestSize |-> IF p.largestSize < files[k].size THEN files[k].size ELSE p.largestSize]

\* a pre-scan that counts an entry only when it is the largest so far
RECURSIVE PreScanLargest(_)
PreScanLargest(k) ==
  IF k = 0 THEN [filesCount |-> 0, largestFile |-> 0, largestSize |-> 0]
  ELSE LET p == PreScanLargest(k - 1)
       IN IF IsDir(k) THEN p
          ELSE IF Excluded(k) THEN p
          ELSE IF p.largestSize < files[k].size
          THEN [filesCount |-> p.filesCount + 1, largestFile |-> k,
                largestSize |-> files[k].size]
          ELSE p

\* main.go:217-243: the state of the pre-scan after the first k entries
RECURSIVE PreScan(_)
PreScan(k) ==
  IF k = 0 THEN [filesCount |-> 0, largestFile |-> 0, largestSize |-> 0]
  ELSE LET p == PreScan(k - 1)
       IN IF IsDir(k) THEN p
          ELSE IF Excluded(k) THEN p
          ELSE [filesCount |-> p.filesCount + 1,
                largestFile |-> IF p.largestSize < files[k].size THEN k ELSE p.largestFile,
                largestSize |-> IF p.largestSize < files[k].size THEN files[k].size ELSE p.largestSize]

\* ------------------------------------------------------------- groups
cfg == << files, diskLimit, n, withMeta, srcExt >>
life == << workDirMade, removeAllCalls, extractorOpened >>
scan == << filesCount, largestFile, largestSize >>
disk == << zipPath, workDir, tmpFiles, dirs >>
sem == << semSize, semCur, semWaiter >>
grp == << cancelled, gerr >>
chan == << uploadJobCh, chClosed >>
disp == << dpc, djob >>
wrk == << wpc, wret >>

\* run() is entered: nothing has been made yet
Start ==
  /\ pc = "setup" /\ i = 0 /\ result = Err("none", 0)
  /\ workDirMade = FALSE /\ removeAllCalls = 0 /\ extractorOpened = FALSE
  /\ objects = [k \in Idx |-> <<>>]
  /\ filesCount = 0 /\ largestFile = 0 /\ largestSize = 0
  /\ zipPath = FALSE /\ workDir = FALSE /\ tmpFiles = {} /\ dirs = {}
  /\ semSize = 0 /\ semCur = 0 /\ semWaiter = "none"
  /\ cancelled = FALSE /\ gerr = NoErr
  /\ uploadJobCh = <<>> /\ chClosed = FALSE
  /\ dpc = "idle" /\ djob = NoJob
  /\ wpc = [k \in Idx |-> "none"]
  /\ wret = [k \in Idx |-> NoErr]
  /\ hist = [k \in Idx |-> [e \in Events |-> 0]]

\* worker counts that differ in effect on an archive: uploadGroup.Go only
\* waits when n workers exist, which takes more than n entries that are
\* not directories, so every larger n behaves as the number of such
\* entries does
WorkerCounts(fs) ==
  LET m == Cardinality({k \in 1..Len(fs) : ~fs[k].dir})
  IN 1..(IF m < 1 THEN 1 ELSE IF m < MaxWorkers THEN m ELSE MaxWorkers)

\* values of -with-meta that differ in effect on an archive: the flag is
\* only read next to isIgnoreMeta(name) (main.go:226, 300)
MetaFlags(fs) ==
  IF \E k \in 1..Len(fs) : isIgnoreMeta(fs[k].name) THEN BOOLEAN ELSE {FALSE}

Init ==
  /\ files \in Archives
  /\ diskLimit \in 1..MaxLimit
  /\ n \in WorkerCounts(files)
  /\ withMeta \in MetaFlags(files)
  /\ srcExt \in Exts
  /\ Start

\* ---------------------------------------------------------------- run
\* leaving run() past its deferred calls, as os.Exit does
ReturnNoDefer(e) == result' = e /\ pc' = "returned"

\* "return err" in run(): the deferred RemoveAll is still to run
Return(e) == result' = e /\ pc' = "defer"

\* main.go:66-87: the extension is validated, the storage client and the
\* staging directory are made; these returns come before the defer
Setup ==
  /\ pc = "setup"
  /\ IF ~Supported(srcExt)
     THEN /\ result' = Err("unsupported format", 0) /\ pc' = "returned"
          /\ UNCHANGED << workDir, workDirMade >>
     ELSE \E out \in {"ok", "client", "mkdir"} :
            IF out = "ok"
            THEN /\ workDir' = TRUE /\ workDirMade' = TRUE
                 /\ pc' = "download" /\ UNCHANGED result
            ELSE /\ result' = Err(IF out = "client" THEN "storage client"
                                                   ELSE "make work dir", 0)
                 /\ pc' = "returned"
                 /\ UNCHANGED << workDir, workDirMade >>
  /\ UNCHANGED << cfg, removeAllCalls, extractorOpened, objects, i, scan, zipPath,
                  tmpFiles, dirs, sem, grp, chan, disp, wrk, hist >>

\* a download whose error is kept but does not end the run
DownloadGoesOn ==
  /\ pc = "download"
  /\ \E ok \in BOOLEAN :
       /\ IF ok THEN zipPath' = TRUE /\ UNCHANGED result
          ELSE result' = Err("download zip", 0) /\ UNCHANGED zipPath
       /\ pc' = "open"
  /\ UNCHANGED << cfg, life, objects, i, scan, workDir, tmpFiles, dirs, sem, grp, chan, disp, wrk, hist >>

\* main.go:92-95
Download ==
  /\ pc = "download"
  /\ \E ok \in BOOLEAN :
       IF ok THEN zipPath' = TRUE /\ pc' = "open" /\ UNCHANGED result
       ELSE Return(Err("download zip", 0)) /\ UNCHANGED zipPath
  /\ UNCHANGED << cfg, life, objects, i, scan, workDir, tmpFiles, dirs, sem, grp, chan, disp, wrk, hist >>

\* main.go:204-215: os.Open and NewExtractor; a panic unwinds run() through
\* its deferred calls and ends the program
OpenArchive ==
  /\ pc = "open"
  /\ \E out \in {"ok", "open", "read"} :
       IF out = "open"
       THEN Return(Err("open zip file", 0)) /\ UNCHANGED extractorOpened
       ELSE IF NewExtractor(srcExt) = "panic"
       THEN Return(Err("panic", 0)) /\ UNCHANGED extractorOpened
       ELSE IF out = "read"
       THEN Return(Err("extractor", 0)) /\ UNCHANGED extractorOpened
       ELSE pc' = "prescan" /\ extractorOpened' = TRUE /\ UNCHANGED result
  /\ UNCHANGED << cfg, workDirMade, removeAllCalls, objects, i, scan, disk, sem, grp,
                  chan, disp, wrk, hist >>

\* a capacity check that runs only after the dispatcher was started
CapacityCheckLate ==
  /\ pc = "prescan"
  /\ LET p == PreScan(Len(files))
     IN /\ filesCount' = p.filesCount
        /\ largestFile' = p.largestFile
        /\ largestSize' = p.largestSize
        /\ IF diskLimit < p.largestSize
           THEN Return([op |-> "no enough space", entry |-> p.largestFile,
                        size |-> bytesString(p.largestSize)]) /\ dpc' = "select"
           ELSE pc' = "spawn" /\ UNCHANGED << result, dpc >>
  /\ UNCHANGED << cfg, life, objects, i, disk, sem, grp, chan, djob, wrk, hist >>

\* main.go:217-246: pre-scan of the entries and the capacity check
CapacityCheck ==
  /\ pc = "prescan"
  /\ LET p == PreScan(Len(files))
     IN /\ filesCount' = p.filesCount
        /\ largestFile' = p.largestFile
        /\ largestSize' = p.largestSize
        /\ IF diskLimit < p.largestSize
           THEN Return([op |-> "no enough space", entry |-> p.largestFile,
                        size |-> bytesString(p.largestSize)])
           ELSE pc' = "spawn" /\ UNCHANGED result
  /\ UNCHANGED << cfg, life, objects, i, disk, sem, grp, chan, disp, wrk, hist >>

\* a count of the group's goroutines that forgets the workers
ActiveDispatcher == IF dpc \in {"idle", "done"} THEN 0 ELSE 1

\* goroutines of uploadGroup that hold a slot of its limit
Active ==
  (IF dpc \in {"idle", "done"} THEN 0 ELSE 1)
    + Cardinality({k \in Idx : wpc[k] \notin {"none", "done"}})

\* main.go:252-290: errgroup, semaphore, channel, and the dispatcher is started
StartGroup ==
  /\ pc = "spawn"
  /\ Active < n + 1
  /\ semSize' = Int64(diskLimit) /\ semCur' = 0 /\ semWaiter' = "none"
  /\ dpc' = "select"
  /\ i' = 1 /\ pc' = "loop"
  /\ UNCHANGED << cfg, life, objects, result, scan, disk, grp, chan, djob, wrk, hist >>

\* main.go:293-315: top of the producer loop up to the directory branch
ProducerNext ==
  /\ pc = "loop"
  /\ IF i > Len(files) \/ cancelled
     THEN pc' = "close" /\ UNCHANGED << i, result, dirs, hist >>
     ELSE IF Excluded(i)
     THEN i' = i + 1 /\ UNCHANGED << pc, result, dirs, hist >>
     ELSE IF IsDir(i)
     THEN \E ok \in BOOLEAN :
            IF ok THEN /\ dirs' = dirs \cup {JobName(i)}
                       /\ hist' = Bump(i, "mkd")
                       /\ i' = i + 1 /\ UNCHANGED << pc, result >>
            ELSE Return(Err("mkdir", i)) /\ UNCHANGED << i, dirs, hist >>
     ELSE pc' = "acquire" /\ UNCHANGED << i, result, dirs, hist >>
  /\ UNCHANGED << cfg, life, objects, scan, zipPath, workDir, tmpFiles, sem, grp, chan, disp, wrk >>

\* semaphore.Weighted.Acquire, uncontended path: size tokens are free and
\* nobody waits
FitsAlways(size) == semWaiter = "none"
Fits(size) == semSize - semCur >= size /\ semWaiter = "none"

\* semaphore.Weighted.Acquire (x/sync v0.3.0), called at main.go:316-319:
\* the uncontended path grants without looking at ctx
Acquire ==
  /\ pc = "acquire"
  /\ LET size == Int64(files[i].size)
     IN IF Fits(size)
        THEN /\ semCur' = semCur + size
             /\ hist' = Bump(i, "acq")
             /\ pc' = "write" /\ UNCHANGED semWaiter
        ELSE IF size > semSize
        THEN pc' = "acquire_doomed" /\ UNCHANGED << semCur, semWaiter, hist >>
        ELSE /\ semWaiter' = "waiting"
             /\ pc' = "acquire_wait" /\ UNCHANGED << semCur, hist >>
  /\ UNCHANGED << cfg, life, objects, i, result, scan, disk, semSize, grp, chan, disp, wrk >>

\* semaphore.Weighted.Acquire, the select of a queued or doomed call:
\* case <-ready returns nil, also when ctx is done by then ("pretend we
\* didn't notice the cancelation"); case <-ctx.Done() withdraws the waiter
\* and returns ctx.Err(), and main.go:317-319 returns
AcquireWake ==
  /\ \/ /\ pc = "acquire_wait" /\ semWaiter = "ready"
        /\ semWaiter' = "none"
        /\ hist' = Bump(i, "acq")
        /\ pc' = "write" /\ UNCHANGED result
     \/ /\ cancelled
        /\ \/ pc = "acquire_wait" /\ semWaiter = "waiting"
           \/ pc = "acquire_doomed"
        /\ semWaiter' = "none"
        /\ Return(Err("acquire disk sem", i)) /\ UNCHANGED hist
  /\ UNCHANGED << cfg, life, objects, i, scan, disk, semSize, semCur, grp, chan, disp, wrk >>

\* main.go:321-323 with writeTemporary (main.go:434-461)
WriteTemporary ==
  /\ pc = "write"
  /\ \E out \in {"ok", "open", "copy"} :
       /\ IF out = "open" THEN UNCHANGED << tmpFiles, hist >>
          ELSE tmpFiles' = tmpFiles \cup {JobName(i)} /\ hist' = Bump(i, "cre")
       /\ IF out = "ok" THEN pc' = "send" /\ UNCHANGED result
          ELSE Return(Err("write temp", i))
  /\ UNCHANGED << cfg, life, objects, i, scan, zipPath, workDir, dirs, sem, grp, chan, disp, wrk >>

\* main.go:324: send on the buffered channel of capacity filesCount
SendJob ==
  /\ pc = "send"
  /\ Len(uploadJobCh) < filesCount
  /\ uploadJobCh' = Append(uploadJobCh,
        [name |-> JobName(i), size |-> Int64(files[i].size), entry |-> i])
  /\ hist' = Bump(i, "emi")
  /\ i' = i + 1 /\ pc' = "loop"
  /\ UNCHANGED << cfg, life, objects, result, scan, disk, sem, grp, chClosed, disp, wrk >>

\* main.go:326
CloseJobs ==
  /\ pc = "close"
  /\ chClosed' = TRUE
  /\ pc' = "wait"
  /\ UNCHANGED << cfg, life, objects, i, result, scan, disk, sem, grp, uploadJobCh, disp, wrk, hist >>

\* main.go:328-332 with errgroup.Group.Wait: wg.Wait, cancel, return g.err
Wait ==
  /\ pc = "wait"
  /\ dpc = "done" /\ \A k \in Idx : wpc[k] \in {"none", "done"}
  /\ cancelled' = TRUE
  /\ IF gerr = NoErr THEN Return(Err("ok", 0))
     ELSE Return([op |-> "uploads", entry |-> gerr.entry, cause |-> gerr.op])
  /\ UNCHANGED << cfg, life, objects, i, scan, disk, sem, gerr, chan, disp, wrk, hist >>

\* a deferred os.RemoveAll whose error becomes the error of run
DeferredEscalates ==
  /\ pc = "defer"
  /\ \E ok \in BOOLEAN :
       IF ok THEN workDir' = FALSE /\ tmpFiles' = {} /\ dirs' = {} /\ UNCHANGED result
       ELSE result' = Err("remove work dir", 0) /\ UNCHANGED << workDir, tmpFiles, dirs >>
  /\ removeAllCalls' = removeAllCalls + 1
  /\ pc' = IF result.op = "panic" THEN "exited" ELSE "returned"
  /\ UNCHANGED << cfg, workDirMade, extractorOpened, objects, i, scan, zipPath,
                  sem, grp, chan, disp, wrk, hist >>

\* main.go:82-87: the deferred os.RemoveAll(workDir); its error is only
\* logged. After a panic the program ends here.
Deferred ==
  /\ pc = "defer"
  /\ \E ok \in BOOLEAN :
       IF ok THEN workDir' = FALSE /\ tmpFiles' = {} /\ dirs' = {}
       ELSE UNCHANGED << workDir, tmpFiles, dirs >>
  /\ removeAllCalls' = removeAllCalls + 1
  /\ pc' = IF result.op = "panic" THEN "exited" ELSE "returned"
  /\ UNCHANGED << cfg, workDirMade, extractorOpened, objects, i, result, scan, zipPath,
                  sem, grp, chan, disp, wrk, hist >>

\* main.go:335-340: main returns or log.Fatal exits; every goroutine ends
Exit ==
  /\ pc = "returned"
  /\ pc' = "exited"
  /\ UNCHANGED << cfg, life, objects, i, result, scan, disk, sem, grp, chan, disp, wrk, hist >>

Alive == pc # "exited"

\* --------------------------------------------------------- dispatcher
\* main.go:267-268
DispatchDone ==
  /\ Alive /\ dpc = "select" /\ cancelled
  /\ dpc' = "done"
  /\ UNCHANGED << cfg, life, objects, pc, i, result, scan, disk, sem, grp, chan, djob, wrk, hist >>

\* what a receive leaves in the channel
RecvRestKeep(ch) == ch
RecvRest(ch) == Tail(ch)

\* main.go:269-274
DispatchRecv ==
  /\ Alive /\ dpc = "select"
  /\ IF Len(uploadJobCh) > 0
     THEN /\ djob' = Head(uploadJobCh)
          /\ uploadJobCh' = RecvRest(uploadJobCh)
          /\ dpc' = "go"
     ELSE /\ chClosed
          /\ dpc' = "done" /\ UNCHANGED << djob, uploadJobCh >>
  /\ UNCHANGED << cfg, life, objects, pc, i, result, scan, disk, sem, grp, chClosed, wrk, hist >>

\* main.go:276-288: uploadGroup.Go blocks while the limit n+1 is reached
DispatchGo ==
  /\ Alive /\ dpc = "go"
  /\ Active < n + 1
  /\ wpc' = [wpc EXCEPT ![djob.entry] = "start"]
  /\ hist' = Bump(djob.entry, "con")
  /\ djob' = NoJob /\ dpc' = "select"
  /\ UNCHANGED << cfg, life, objects, pc, i, result, scan, disk, sem, grp, chan, wret >>

\* ------------------------------------------------------------ workers
\* upload (main.go:131-135): the select on ctx.Done() at the start
UploadSeesDoneNever == FALSE
UploadSeesDone == cancelled

\* upload (main.go:130-144): the cancellation check, os.Open, NewWriter; an
\* attempt starts its destination write where it passes the check
UploadStart(k) ==
  /\ Alive /\ wpc[k] = "start"
  /\ IF UploadSeesDone
     THEN /\ wret' = [wret EXCEPT ![k] = NoErr]
          /\ hist' = Bump(k, "skp")
          /\ wpc' = [wpc EXCEPT ![k] = "remove"]
          /\ UNCHANGED objects
     ELSE IF JobName(k) \notin tmpFiles
     THEN /\ wret' = [wret EXCEPT ![k] = Err("open upload file", k)]
          /\ wpc' = [wpc EXCEPT ![k] = "remove"]
          /\ UNCHANGED << hist, objects >>
     ELSE /\ hist' = Bump(k, "sta")
          /\ objects' = [objects EXCEPT ![k] = ObjectName(JobName(k))]
          /\ wpc' = [wpc EXCEPT ![k] = "uploading"]
          /\ UNCHANGED wret
  /\ UNCHANGED << cfg, life, pc, i, result, scan, disk, sem, grp, chan, disp >>

\* upload (main.go:144-195): io.CopyBuffer and closeWriter on a writer
\* bound to ctx; a cancelled ctx makes them fail
UploadFinish(k) ==
  /\ Alive /\ wpc[k] = "uploading"
  /\ \E out \in {"ok", "fail"} \cup (IF cancelled THEN {"abort"} ELSE {}) :
       /\ wret' = [wret EXCEPT ![k] =
             CASE out = "ok" -> NoErr
               [] out = "fail" -> Err("upload", k)
               [] out = "abort" -> Err("upload: context canceled", k)]
       /\ hist' = CASE out = "ok" -> Bump(k, "fin")
                    [] out = "fail" -> hist
                    [] out = "abort" -> Bump(k, "abt")
  /\ wpc' = [wpc EXCEPT ![k] = "remove"]
  /\ UNCHANGED << cfg, life, objects, pc, i, result, scan, disk, sem, grp, chan, disp >>

RECURSIVE SumOf(_, _)
SumOf(ev, k) == IF k = 0 THEN 0 ELSE SumOf(ev, k - 1) + hist[k][ev]

\* a worker that leaves without removing its temp file
RemoveTempSkips(k) ==
  /\ Alive /\ wpc[k] = "remove"
  /\ hist' = Bump(k, "rem")
  /\ wpc' = [wpc EXCEPT ![k] = "release"]
  /\ UNCHANGED << cfg, life, objects, pc, i, result, scan, disk, sem, grp, chan, disp, wret >>

\* main.go:278-286: the deferred os.Remove; its error is only logged
RemoveTemp(k) ==
  /\ Alive /\ wpc[k] = "remove"
  /\ \E ok \in {TRUE} \cup {FALSE : x \in {m \in {0} : SumOf("rmf", Len(files)) < MaxRemoveFail}} :
       IF ok THEN tmpFiles' = tmpFiles \ {JobName(k)} /\ hist' = Bump(k, "rem")
       ELSE UNCHANGED tmpFiles
            /\ hist' = [hist EXCEPT ![k] = [@ EXCEPT !["rem"] = @ + 1, !["rmf"] = @ + 1]]
  /\ wpc' = [wpc EXCEPT ![k] = "release"]
  /\ UNCHANGED << cfg, life, objects, pc, i, result, scan, zipPath, workDir, dirs, sem, grp, chan, disp, wret >>

\* a release of one token whatever the job's size
ReleaseQuotaUnit(k) ==
  /\ Alive /\ wpc[k] = "release"
  /\ semCur' = semCur - 1
  /\ hist' = Bump(k, "rel")
  /\ wpc' = [wpc EXCEPT ![k] = "exit"]
  /\ UNCHANGED << cfg, life, objects, pc, i, result, scan, disk, semSize, semWaiter,
                  grp, chan, disp, wret >>

\* main.go:277: the deferred diskSem.Release(size) with notifyWaiters;
\* Release panics ("released more than held") when the count falls below
\* zero, which ends the program
ReleaseQuota(k) ==
  /\ Alive /\ wpc[k] = "release"
  /\ LET cur == semCur - Int64(files[k].size)
         want == Int64(files[i].size)
     IN IF cur < 0
        THEN /\ semCur' = cur /\ UNCHANGED semWaiter
             /\ result' = Err("panic", k) /\ pc' = "exited"
        ELSE /\ IF semWaiter = "waiting" /\ semSize - cur >= want
                THEN semCur' = cur + want /\ semWaiter' = "ready"
                ELSE semCur' = cur /\ UNCHANGED semWaiter
             /\ UNCHANGED << pc, result >>
  /\ hist' = Bump(k, "rel")
  /\ wpc' = [wpc EXCEPT ![k] = "exit"]
  /\ UNCHANGED << cfg, life, objects, i, scan, disk, semSize, grp, chan, disp, wret >>

\* errgroup.Group.Go wrapper: f returned an error and errOnce has not fired
FirstErrorNever(k) == FALSE
FirstError(k) == wret[k] # NoErr /\ gerr = NoErr

\* errgroup.Group.Go wrapper: the first error is kept and cancels ctx, then
\* the slot is given back
WorkerExit(k) ==
  /\ Alive /\ wpc[k] = "exit"
  /\ IF FirstError(k)
     THEN gerr' = wret[k] /\ cancelled' = TRUE
     ELSE UNCHANGED grp
  /\ wpc' = [wpc EXCEPT ![k] = "done"]
  /\ UNCHANGED << cfg, life, objects, pc, i, result, scan, disk, sem, chan, disp, wret, hist >>

Next ==
  \/ Setup \/ Download \/ OpenArchive \/ CapacityCheck \/ StartGroup
  \/ ProducerNext \/ Acquire \/ AcquireWake
  \/ WriteTemporary \/ SendJob \/ CloseJobs \/ Wait \/ Deferred \/ Exit
  \/ DispatchDone \/ DispatchRecv \/ DispatchGo
  \/ \E k \in Idx : UploadStart(k)
  \/ \E k \in Idx : UploadFinish(k)
  \/ \E k \in Idx : RemoveTemp(k)
  \/ \E k \in Idx : ReleaseQuota(k)
  \/ \E k \in Idx : WorkerExit(k)

Spec == Init /\ [][Next]_vars

TypeOK == pc \in {"setup", "download", "open", "prescan", "spawn", "loop", "acquire",
                  "acquire_wait", "acquire_doomed", "write", "send", "close",
                  "wait", "defer", "returned", "exited"}

\* ======================================================================
\* Properties
\* ======================================================================
Ended == pc \in {"returned", "exited"}
Held(k) == hist[k].acq - hist[k].rel

RECURSIVE SumHeld(_)
SumHeld(k) == IF k = 0 THEN 0 ELSE SumHeld(k - 1) + files[k].size * Held(k)

\* bytes of the reservations Acquire has returned and Release has not taken back
Outstanding == SumHeld(Len(files))

\* C1: in every reachable state the sum of the sizes of the reservations
\* granted and not yet released is at most the disk limit (and so is the
\* semaphore's own count, which also holds a grant not yet returned to the
\* producer).
C1_QuotaBound ==
  /\ Outstanding <= diskLimit
  /\ Outstanding <= semCur
  /\ semCur <= diskLimit

\* two reservations are held at once and fill the limit exactly
C1_Witness ==
  /\ \E a, b \in Idx : a # b /\ Held(a) = 1 /\ Held(b) = 1
  /\ Outstanding = diskLimit

\* entries that are neither directories nor excluded as junk
Candidates == {k \in Idx : ~files[k].dir /\ ~Excluded(k)}
TooBig == \E k \in Candidates : files[k].size > diskLimit
IsLargest(k) ==
  /\ k \in Candidates
  /\ \A j \in Candidates : files[j].size <= files[k].size
NoneOf(evs) == \A k \in Idx : \A e \in evs : hist[k][e] = 0

\* C2: when the largest non-directory, non-excluded entry is larger than
\* the disk limit, the run never gets past the capacity check: it ends
\* with an error (of the setup, of the download, of opening the archive, or
\* the capacity error), the capacity error names a largest entry and its size, and no
\* quota is acquired, no temp file created, no job emitted, no destination
\* write started.
C2_CapacityRejection ==
  TooBig =>
    /\ pc \in {"setup", "download", "open", "prescan", "defer", "returned", "exited"}
    /\ result.op \in {"none", "unsupported format", "storage client", "make work dir",
                      "download zip", "open zip file", "extractor", "panic",
                      "no enough space"}
    /\ (pc \in {"defer", "returned", "exited"} => result.op # "none")
    /\ (result.op = "no enough space"
        => /\ IsLargest(result.entry)
           /\ result.size = bytesString(files[result.entry].size))
    /\ NoneOf({"acq", "cre", "emi", "con", "sta", "fin"})
    /\ semCur = 0 /\ tmpFiles = {} /\ uploadJobCh = <<>>

\* a rejected run has returned; the archive also holds a directory entry
\* larger than the limit, which the pre-scan passed over
C2_Witness ==
  /\ pc = "returned" /\ result.op = "no enough space"
  /\ \E k \in Idx : files[k].dir /\ files[k].size > diskLimit

\* C3 as stated: in a capacity-rejected run no download was attempted.
C3_CheckBeforeDownload ==
  result.op = "no enough space" => ~zipPath

\* C3 amended: the capacity rejection comes after the download of the
\* archive and before any work of the concurrent stage: no task is
\* spawned, no directory made, no quota acquired, no file staged, no upload
\* started.
C3_CheckBeforeStaging ==
  result.op = "no enough space" =>
    /\ zipPath
    /\ dpc = "idle" /\ \A k \in Idx : wpc[k] = "none"
    /\ \A k \in Idx : \A e \in Events : hist[k][e] = 0
    /\ dirs = {} /\ tmpFiles = {} /\ uploadJobCh = <<>> /\ semCur = 0

C3_Witness ==
  /\ pc = "exited" /\ result.op = "no enough space" /\ zipPath
  /\ \E k \in Idx : files[k].dir

RemoveFailed == {JobName(k) : k \in {j \in Idx : hist[j].rmf >= 1}}

\* C4 as stated: when run has returned success, every non-directory,
\* non-excluded entry has had its upload completed exactly once, no staged
\* temp file remains, the job channel is empty, no quota is outstanding and
\* no upload was skipped.
C4_SuccessClean ==
  Ended /\ result.op = "ok" =>
    /\ \A k \in Candidates : hist[k].sta = 1 /\ hist[k].fin = 1
    /\ tmpFiles = {}
    /\ uploadJobCh = <<>>
    /\ semCur = 0 /\ Outstanding = 0
    /\ NoneOf({"skp"})

\* C4 amended: as above, but a staged temp file may remain when its
\* os.Remove failed and the removal of the staging directory failed too
\* (both errors are only logged).
C4_SuccessCleanOrLogged ==
  Ended /\ result.op = "ok" =>
    /\ \A k \in Candidates : hist[k].sta = 1 /\ hist[k].fin = 1
    /\ tmpFiles \subseteq RemoveFailed
    /\ (tmpFiles # {} => workDir)
    /\ uploadJobCh = <<>>
    /\ semCur = 0 /\ Outstanding = 0
    /\ NoneOf({"skp"})

C4_Witness ==
  /\ pc = "returned" /\ result.op = "ok"
  /\ Cardinality(Candidates) >= 2
  /\ tmpFiles # {}

InChannel(k) == \E j \in 1..Len(uploadJobCh) : uploadJobCh[j].entry = k

\* C6: a directory entry never acquires quota and never yields a temp
\* file, a job or a worker; it is not counted by the pre-scan; all it
\* does is make its directory under the staging directory.
C6_DirNoQuota ==
  /\ \A k \in Idx : files[k].dir =>
       /\ \A e \in Events \ {"mkd"} : hist[k][e] = 0
       /\ hist[k].mkd <= 1
       /\ wpc[k] = "none" /\ ~InChannel(k) /\ djob.entry # k
       /\ JobName(k) \notin tmpFiles
       /\ (workDir => (JobName(k) \in dirs <=> hist[k].mkd = 1))
  /\ filesCount \in {0, Cardinality(Candidates)}
  /\ ((\A k \in Idx : files[k].dir) => semCur = 0 /\ uploadJobCh = <<>>)

C6_Witness ==
  /\ Ended /\ result.op = "ok"
  /\ \E k \in Idx : files[k].dir /\ files[k].size > diskLimit /\ hist[k].mkd = 1
  /\ \E k \in Idx : ~files[k].dir

\* C7 as stated: once the context is cancelled, no Acquire returns success.
C7_NoAcquireAfterCancel ==
  [][cancelled => \A k \in Idx : hist'[k].acq = hist[k].acq]_vars

\* C8: an upload attempt that starts when the context is cancelled starts
\* no destination write, is counted as skipped and returns nil, its
\* return leaves the group's error as it was, and while the context is
\* cancelled the number of started destination writes does not grow.
C8_SkipAfterCancel ==
  [][/\ cancelled => \A k \in Idx : hist'[k].sta = hist[k].sta
     /\ \A k \in Idx :
          /\ (cancelled /\ wpc[k] = "start" /\ wpc'[k] # "start")
               => hist'[k].skp = 1 /\ wret'[k] = NoErr /\ wpc'[k] = "remove"
          /\ hist'[k].skp = 1
               => hist'[k].sta = 0 /\ hist'[k].fin = 0 /\ wret'[k] = NoErr
          /\ (hist[k].skp = 1 /\ wpc[k] = "exit" /\ wpc'[k] = "done")
               => gerr' = gerr]_vars

C8_Witness ==
  \E k \in Idx : hist[k].skp = 1 /\ wpc[k] = "done" /\ gerr # NoErr

\* C9 as stated: an upload that has started is never aborted by the
\* cancellation of the context, and none is cut off unfinished when the
\* program ends after an error of the producer.
C9_InFlightCompletes ==
  /\ NoneOf({"abt"})
  /\ (pc = "exited" => \A k \in Idx : wpc[k] # "uploading")

\* C10 as stated: no reservation is released twice or without having been
\* acquired, and when run has ended every granted reservation has been
\* released.
C10_ReleasedOnce ==
  /\ \A k \in Idx : hist[k].rel <= hist[k].acq /\ hist[k].acq <= 1
  /\ (Ended => \A k \in Idx : Held(k) = 0)

\* ------------------------------------------------ contended archive
\* three files of which the first two fill the disk limit and the third
\* needs all of it, so that the producer waits in Acquire while two
\* uploads run
ContendedArchive ==
  << [name |-> <<LeafNames[1]>>, dir |-> FALSE, size |-> 1],
     [name |-> <<LeafNames[2]>>, dir |-> FALSE, size |-> 1],
     [name |-> <<LeafNames[3]>>, dir |-> FALSE, size |-> 2] >>

InitContended ==
  /\ files = ContendedArchive
  /\ diskLimit = 2
  /\ n = 2
  /\ withMeta = FALSE
  /\ srcExt = extZip
  /\ Start

SpecContended == InitContended /\ [][Next]_vars

\* errors run returns from the concurrent stage (main.go:312, 318, 322, 330)
StageErrors == {"mkdir", "acquire disk sem", "write temp", "uploads"}
Returning == pc \in {"defer", "returned", "exited"}

\* C11 as stated: the error run returns from the concurrent stage is the
\* error of an operation that failed (mkdir, the write of a temp file, an
\* upload), never the cancellation that followed another task's failure.
C11_ActualFailure ==
  Returning /\ result.op \in StageErrors =>
    /\ result.op \in {"mkdir", "write temp", "uploads"}
    /\ (result.op = "uploads" => result.cause \in {"upload", "open upload file"})

\* C12 as stated: when run returns an error of the concurrent stage, the
\* dispatcher and every upload worker have ended.
C12_TasksEndedAtReturn ==
  Returning /\ result.op \in StageErrors =>
    /\ dpc = "done"
    /\ \A k \in Idx : wpc[k] \in {"none", "done"}

\* C13 as stated: once the producer has failed (mkdir, Acquire, the write
\* of a temp file), the context is cancelled.
C13_ProducerErrorCancels ==
  result.op \in {"mkdir", "acquire disk sem", "write temp"} => cancelled

\* C14 as stated: a source name whose extension the validation in run
\* rejects ends the run with "unsupported format" before the staging
\* directory is made or any stage runs, and for every source name the
\* validation accepts NewExtractor selects a variant: no run panics.
C14_NoPanic ==
  /\ (~Supported(srcExt) /\ pc # "setup"
        => /\ result.op = "unsupported format" /\ Ended
           /\ ~workDirMade /\ ~zipPath /\ ~extractorOpened /\ dpc = "idle")
  /\ (Supported(srcExt) => NewExtractor(srcExt) # "panic")
  /\ result.op # "panic"

\* ------------------------------------------------------------ junk names
MaxDepth == 2
Components == {"__MACOSX", ".DS_Store", "Thumbs.db", "a", ""}
Paths == UNION { [1..len -> Components] : len \in 1..MaxDepth }

\* junk as the claim words it: a component before the last is __MACOSX, or
\* the last component is .DS_Store, Thumbs.db or __MACOSX
Junk(name) ==
  \/ \E j \in 1..(Len(name) - 1) : name[j] = "__MACOSX"
  \/ name[Len(name)] \in {".DS_Store", "Thumbs.db", "__MACOSX"}

IgnoreMetaIsJunk == \A name \in Paths : isIgnoreMeta(name) <=> Junk(name)

Filtered(k) == ~withMeta /\ Junk(files[k].name)

\* C15: isIgnoreMeta holds exactly of the junk names; by default a junk
\* entry acquires no quota, is not staged, emitted, uploaded or made as a
\* directory and is not counted by the pre-scan (capacity check, queue
\* size); with -with-meta junk entries are counted and processed like the
\* others; and a run that ends without error has uploaded every file and
\* made every directory that is not filtered.
C15_JunkFiltered ==
  /\ IgnoreMetaIsJunk
  /\ \A k \in Idx : Filtered(k) =>
        /\ \A e \in Events : hist[k][e] = 0
        /\ wpc[k] = "none" /\ ~InChannel(k) /\ djob.entry # k
        /\ JobName(k) \notin tmpFiles \cup dirs
        /\ largestFile # k
  /\ filesCount \in {0, Cardinality({k \in Idx : ~files[k].dir /\ ~Filtered(k)})}
  /\ (result.op = "no enough space"
        => \E k \in Idx : ~files[k].dir /\ ~Filtered(k) /\ files[k].size > diskLimit)
  /\ (Ended /\ result.op = "ok" =>
        \A k \in Idx : ~Filtered(k) =>
          IF files[k].dir THEN hist[k].mkd = 1
          ELSE hist[k].acq = 1 /\ hist[k].cre = 1 /\ hist[k].fin = 1)

\* by default a junk file larger than the limit is passed over and the
\* other file is uploaded
C15_Witness ==
  /\ Ended /\ result.op = "ok" /\ ~withMeta
  /\ \E k \in Idx : Junk(files[k].name) /\ ~files[k].dir /\ files[k].size > diskLimit
  /\ \E k \in Idx : ~Junk(files[k].name) /\ hist[k].fin = 1

\* C16: the object a worker writes for entry k is the destination prefix,
\* the archive's base name without extension and the entry's path, joined
\* with "/"; two entries never get the same object.
C16_ObjectNames ==
  /\ \A k \in Idx :
        /\ hist[k].sta >= 1 => objects[k] = destPrefix \o <<archiveName>> \o files[k].name
        /\ hist[k].sta = 0 => objects[k] = <<>>
  /\ \A j, k \in Idx : j # k /\ objects[j] # <<>> => objects[j] # objects[k]

C16_Witness ==
  /\ \E k \in Idx : objects[k] = <<"out", "data", "a.txt">>
  /\ \E k \in Idx : Len(objects[k]) = 4 /\ hist[k].fin = 1

\* C17: when run has ended (returned, or unwound by a panic) and the
\* staging directory had been made, os.RemoveAll was called on it, once;
\* it is never called when the directory was not made.
C17_CleanupAttempted ==
  /\ (Ended /\ workDirMade => removeAllCalls = 1)
  /\ removeAllCalls <= 1
  /\ (~workDirMade => removeAllCalls = 0)

\* a run ended with an upload error after the context was cancelled
C17_Witness ==
  /\ pc = "returned" /\ result.op = "uploads" /\ cancelled
  /\ workDirMade /\ removeAllCalls = 1

Uploaders == {k \in Idx : wpc[k] \notin {"none", "done"}}

\* C18: at most n upload goroutines exist at any time; together with the
\* dispatcher at most n + 1 tasks of the group.
C18_AtMostNUploads ==
  /\ Cardinality(Uploaders) <= n
  /\ Cardinality(Uploaders) + (IF dpc \in {"select", "go"} THEN 1 ELSE 0) <= n + 1

\* with n = 1 an upload runs and the dispatcher holds the next job back
C18_Witness ==
  /\ n = 1 /\ dpc = "go"
  /\ \E k \in Idx : wpc[k] = "uploading"

\* what run can return
Outcomes ==
  {"ok", "unsupported format", "storage client", "make work dir", "download zip",
   "open zip file", "extractor", "panic", "no enough space", "mkdir",
   "acquire disk sem", "write temp", "uploads"}

\* the stages have all succeeded: the group was started, every directory
\* was made, every file staged, emitted and uploaded
AllSucceeded ==
  /\ extractorOpened /\ semSize > 0
  /\ \A k \in Idx : ~Excluded(k) =>
        IF files[k].dir THEN hist[k].mkd = 1
        ELSE hist[k].emi = 1 /\ hist[k].fin = 1

\* C19: a failed os.Remove or os.RemoveAll never shows in the outcome: a
\* worker returns what its upload gave, whether or not its os.Remove
\* failed; run returns success when every stage succeeded; an error of the
\* uploads is the error of an upload that did not complete; and no
\* outcome is an error of a removal.
C19_CleanupNeverEscalates ==
  /\ \A k \in Idx : wpc[k] \in {"release", "exit", "done"} =>
        (wret[k] = NoErr <=> hist[k].fin = 1 \/ hist[k].skp = 1)
  /\ (Ended => result.op \in Outcomes)
  /\ (Ended /\ AllSucceeded => result.op = "ok")
  /\ (result.op = "uploads" =>
        /\ wret[result.entry] = Err(result.cause, result.entry)
        /\ hist[result.entry].fin = 0 /\ hist[result.entry].skp = 0)

\* a run returned success although a worker's os.Remove and the final
\* os.RemoveAll both failed
C19_Witness ==
  /\ pc = "returned" /\ result.op = "ok"
  /\ \E k \in Idx : hist[k].rmf = 1
  /\ workDir /\ removeAllCalls = 1

\* C20: when the download has failed, run ends with that error and
\* nothing of a later stage has happened: no extractor opened, no pre-scan,
\* no task spawned, no quota acquired, no file staged, no object written.
C20_DownloadFatal ==
  result.op = "download zip" =>
    /\ Returning
    /\ ~zipPath /\ ~extractorOpened
    /\ filesCount = 0 /\ semSize = 0 /\ semCur = 0
    /\ dpc = "idle" /\ \A k \in Idx : wpc[k] = "none"
    /\ \A k \in Idx : \A e \in Events : hist[k][e] = 0
    /\ \A k \in Idx : objects[k] = <<>>
    /\ tmpFiles = {} /\ dirs = {} /\ uploadJobCh = <<>>

C20_Witness ==
  /\ pc = "exited" /\ result.op = "download zip"
  /\ removeAllCalls = 1 /\ Candidates # {}

\* jobs the producer has emitted so far
Emitted == SumOf("emi", Len(files))

\* C21: the channel never holds more jobs than the pre-scan counted, a send
\* always finds room, the pre-scan counted exactly the entries the producer
\* loop stages, and the producer emits no more jobs than that; so the only
\* places the producer waits in are Acquire and the final Wait.
C21_SendNeverBlocks ==
  /\ Len(uploadJobCh) <= filesCount
  /\ (pc = "send" => Len(uploadJobCh) < filesCount)
  /\ (extractorOpened /\ pc # "prescan" /\ result.op # "no enough space"
        => filesCount = Cardinality(Candidates))
  /\ Emitted <= filesCount
  /\ \A k \in Idx : hist[k].emi >= 1 => k \in Candidates

\* the second job is sent while the first is still in the channel
C21_Witness ==
  /\ pc = "send" /\ filesCount = 2 /\ Len(uploadJobCh) = 1 /\ Emitted = 1

\* C22 as stated: when run has ended after its producer loop finished
\* (all entries done, or the loop left because of cancellation) and closed
\* the channel, the channel is empty, and every job that was emitted has
\* been handed to a worker, its temp file removal attempted and its
\* reservation released.
C22_Drained ==
  Ended /\ result.op \in {"ok", "uploads"} =>
    /\ chClosed /\ uploadJobCh = <<>> /\ djob = NoJob
    /\ \A k \in Idx : hist[k].emi = 1 =>
          hist[k].con = 1 /\ hist[k].rem = 1 /\ hist[k].rel = 1

\* C23: a worker releases only in its release step, after its one call of
\* os.Remove, and the release gives back the size of its job (a waiter may
\* be granted its request in the same call); a worker that has ended was
\* spawned once, has called os.Remove once and has released once, whatever
\* its upload gave.
C23_RemoveThenRelease ==
  [][\A k \in Idx :
       /\ hist'[k].rel <= hist'[k].rem
       /\ hist'[k].rel # hist[k].rel =>
            /\ wpc[k] = "release" /\ hist[k].rem = 1 /\ hist'[k].rel = 1
            /\ semCur' = semCur - files[k].size
                  + (IF semWaiter = "waiting" /\ semWaiter' = "ready"
                     THEN files[i].size ELSE 0)
       /\ wpc'[k] = "done" =>
            hist'[k].con = 1 /\ hist'[k].rem = 1 /\ hist'[k].rel = 1]_vars

\* one worker ended after a failed upload and one after a skipped upload
C23_Witness ==
  /\ \E k \in Idx : wpc[k] = "done" /\ wret[k] # NoErr /\ hist[k].rel = 1
  /\ \E k \in Idx : wpc[k] = "done" /\ hist[k].skp = 1 /\ hist[k].rel = 1
  /\ \E k \in Idx : files[k].size = 2 /\ hist[k].rel = 1

\* ------------------------------------------------------- wide integers
\* sizes and limits on both sides of the sign bit of the machine word
WideSizes == {1, Pow2(Bits - 1) - 1, Pow2(Bits - 1), Pow2(Bits) - 1}

WideArchives ==
  UNION { { f \in [1..len -> [name : {<<LeafNames[k]>> : k \in 1..len},
                              dir : {FALSE}, size : WideSizes]] :
              \A k \in 1..len : f[k].name = <<LeafNames[k]>> } : len \in 1..2 }

InitWide ==
  /\ files \in WideArchives
  /\ diskLimit \in WideSizes
  /\ n = 1
  /\ withMeta = FALSE
  /\ srcExt = extZip
  /\ Start

SpecWide == InitWide /\ [][Next]_vars

\* C24 as stated: whenever the producer is in Acquire (the capacity check
\* has passed), the amount it asks for is at least 0 and at most the
\* capacity the semaphore was made with.
C24_AcquireSatisfiable ==
  pc \in {"acquire", "acquire_wait", "acquire_doomed"} =>
    /\ 0 <= Int64(files[i].size)
    /\ Int64(files[i].size) <= semSize

\* C25 as stated (its safety half): as long as the program has not exited
\* some step of the producer, the dispatcher or a worker is possible.
C25_NoDeadlock ==
  pc # "exited" => ENABLED Next

\* the same program under weak fairness of its steps: every goroutine that
\* can step eventually does, and every extraction and upload step ends
SpecFair == Spec /\ WF_vars(Next)

\* with the disk limit and the sizes below the sign bit (Spec), every fair
\* run ends
C25_Terminates == <>(pc = "exited")

RECURSIVE StagedUpTo(_)
StagedUpTo(k) ==
  IF k = 0 THEN 0
  ELSE StagedUpTo(k - 1) + (IF JobName(k) \in tmpFiles THEN files[k].size ELSE 0)

\* declared size of the temp files in the staging directory
StagedBytes == StagedUpTo(Len(files))

\* C26 as stated: every temp file in the staging directory belongs to an
\* entry whose reservation is held, and when no removal has failed the
\* declared sizes of the staged files add up to at most the disk limit.
C26_StagedIsHeld ==
  /\ \A k \in Idx : JobName(k) \in tmpFiles => Held(k) = 1
  /\ (NoneOf({"rmf"}) => StagedBytes <= diskLimit)

\* C26 amended: every temp file in the staging directory whose removal
\* has not failed belongs to an entry whose reservation is held; a file
\* whose os.Remove failed stays after its reservation was released; when
\* no removal has failed the staged sizes add up to at most the limit.
C26_StagedIsHeldUnlessRemoveFailed ==
  /\ \A k \in Idx : JobName(k) \in tmpFiles /\ hist[k].rmf = 0 => Held(k) = 1
  /\ \A k \in Idx : JobName(k) \in tmpFiles => hist[k].cre = 1 /\ hist[k].acq = 1
  /\ (NoneOf({"rmf"}) => StagedBytes <= diskLimit)

\* two staged files fill the limit while one of them is being uploaded
C26_Witness ==
  /\ Cardinality(tmpFiles) = 2 /\ StagedBytes = diskLimit
  /\ \E k \in Idx : wpc[k] = "uploading"
  /\ \E k \in Idx : InChannel(k)

====
